---- MODULE Spec2Model ----
(***************************************************************************)
(* Model of the image converter's batch pipeline                           *)
(* (internal/converter: Converter, ResizeCalculator, FormatDetector,       *)
(* ImageLoader, ImageSaver; internal/filesystem: FileSystemManager).       *)
(*                                                                         *)
(* Thread 0 is the goroutine that calls ProcessDirectory; thread i >= 1 is *)
(* the goroutine started for imageFiles[i].  Every statement that touches  *)
(* shared state is one step, so that the interleavings of the goroutines   *)
(* are the interleavings of the steps.                                     *)
(***************************************************************************)
EXTENDS Integers, Sequences, FiniteSets, TLC

(***************************************************************************)
(* Bounds of the model.                                                    *)
(***************************************************************************)
\* most files one directory scan returns
MaxFiles == 3
\* largest value runtime.NumCPU() takes
MaxCPU == 2
\* most ProcessDirectory calls on one Converter
MaxRuns == 2
\* most direct UpdateStats / IncrementSkipped calls in the stats specification
MaxCalls == 4
\* stand-in for the largest Go int: image.NewRGBA panics when 4*w*h exceeds it
MaxInt == 255
\* the largest width, height and bound of the directly computed sizes, beside
\* the few larger ones named in SizeSources and SizeTargets
MaxDim == 4
\* most tokens (names, dots and separators) of a directly given source path
MaxPath == 5

\* converter.go:84, the quality used when config.JPEGQuality is 0
DefaultQuality == 85

VARIABLES
    config,          \* Converter.config
    stats,           \* Converter.stats
    statsMutex,      \* Converter.statsMutex: Free or the thread holding it
    env,             \* the host: output directory writable, encoder working
    numCPU,          \* the host: runtime.NumCPU()
    dir,             \* the host: the entries of the input directory
    outfs,           \* the output directory: file name -> state of the file
    pc,              \* thread -> position in its code
    ret,             \* thread -> position to go back to after a stats call
    run,             \* number of ProcessDirectory calls made so far
    files,           \* ProcessDirectory: files
    imageFiles,      \* ProcessDirectory: imageFiles
    ci,              \* ProcessDirectory: position of the classification loop
    sj,              \* ProcessDirectory: position of the dispatch loop
    numWorkers,      \* ProcessDirectory: numWorkers
    sem,             \* ProcessDirectory: number of elements in the channel sem
    wg,              \* ProcessDirectory: counter of the WaitGroup
    progressMutex,   \* ProcessDirectory: Free or the thread holding it
    processedCount,  \* ProcessDirectory: processedCount
    currentIndex,    \* worker -> currentIndex
    result,          \* thread -> result of its ConvertImage call
    crashed,         \* the process died of an unrecovered panic
    retErr,          \* the error the last ProcessDirectory call returned
    out,             \* standard output, one element per Printf
    convCalls,       \* history: position in files -> ConvertImage calls of this run
    skipCalls,       \* history: position in files -> IncrementSkipped calls of this run
    startStats,      \* history: stats when the current run was called
    calls,           \* history: the direct stats calls made so far, by kind
    calc             \* history: the direct call of a pure function, with its result

vars == << config, stats, statsMutex, env, numCPU, dir, outfs, pc, ret, run, files,
           imageFiles, ci, sj, numWorkers, sem, wg, progressMutex,
           processedCount, currentIndex, result, crashed, retErr, out,
           convCalls, skipCalls, startStats, calls, calc >>

Threads == 0 .. MaxFiles
Workers == 1 .. MaxFiles
Free == -1

(***************************************************************************)
(* Paths.  A source path is the record of the parts filepath.Base and      *)
(* filepath.Ext cut it into: the directory, the base name without its last *)
(* extension, and the last extension (with its dot, "" when there is none).*)
(***************************************************************************)
\* The strings of the model, each with the sequence of its characters: the
\* letter cases of the format names, and the extensions of the source files.
Spelling ==
    "jpg" :> << "j", "p", "g" >> @@
    "jpG" :> << "j", "p", "G" >> @@
    "jPg" :> << "j", "P", "g" >> @@
    "jPG" :> << "j", "P", "G" >> @@
    "Jpg" :> << "J", "p", "g" >> @@
    "JpG" :> << "J", "p", "G" >> @@
    "JPg" :> << "J", "P", "g" >> @@
    "JPG" :> << "J", "P", "G" >> @@
    "jpeg" :> << "j", "p", "e", "g" >> @@
    "jpeG" :> << "j", "p", "e", "G" >> @@
    "jpEg" :> << "j", "p", "E", "g" >> @@
    "jpEG" :> << "j", "p", "E", "G" >> @@
    "jPeg" :> << "j", "P", "e", "g" >> @@
    "jPeG" :> << "j", "P", "e", "G" >> @@
    "jPEg" :> << "j", "P", "E", "g" >> @@
    "jPEG" :> << "j", "P", "E", "G" >> @@
    "Jpeg" :> << "J", "p", "e", "g" >> @@
    "JpeG" :> << "J", "p", "e", "G" >> @@
    "JpEg" :> << "J", "p", "E", "g" >> @@
    "JpEG" :> << "J", "p", "E", "G" >> @@
    "JPeg" :> << "J", "P", "e", "g" >> @@
    "JPeG" :> << "J", "P", "e", "G" >> @@
    "JPEg" :> << "J", "P", "E", "g" >> @@
    "JPEG" :> << "J", "P", "E", "G" >> @@
    "png" :> << "p", "n", "g" >> @@
    "pnG" :> << "p", "n", "G" >> @@
    "pNg" :> << "p", "N", "g" >> @@
    "pNG" :> << "p", "N", "G" >> @@
    "Png" :> << "P", "n", "g" >> @@
    "PnG" :> << "P", "n", "G" >> @@
    "PNg" :> << "P", "N", "g" >> @@
    "PNG" :> << "P", "N", "G" >> @@
    "webp" :> << "w", "e", "b", "p" >> @@
    "webP" :> << "w", "e", "b", "P" >> @@
    "weBp" :> << "w", "e", "B", "p" >> @@
    "weBP" :> << "w", "e", "B", "P" >> @@
    "wEbp" :> << "w", "E", "b", "p" >> @@
    "wEbP" :> << "w", "E", "b", "P" >> @@
    "wEBp" :> << "w", "E", "B", "p" >> @@
    "wEBP" :> << "w", "E", "B", "P" >> @@
    "Webp" :> << "W", "e", "b", "p" >> @@
    "WebP" :> << "W", "e", "b", "P" >> @@
    "WeBp" :> << "W", "e", "B", "p" >> @@
    "WeBP" :> << "W", "e", "B", "P" >> @@
    "WEbp" :> << "W", "E", "b", "p" >> @@
    "WEbP" :> << "W", "E", "b", "P" >> @@
    "WEBp" :> << "W", "E", "B", "p" >> @@
    "WEBP" :> << "W", "E", "B", "P" >> @@
    "gif" :> << "g", "i", "f" >> @@
    "giF" :> << "g", "i", "F" >> @@
    "gIf" :> << "g", "I", "f" >> @@
    "gIF" :> << "g", "I", "F" >> @@
    "Gif" :> << "G", "i", "f" >> @@
    "GiF" :> << "G", "i", "F" >> @@
    "GIf" :> << "G", "I", "f" >> @@
    "GIF" :> << "G", "I", "F" >> @@
    "bmp" :> << "b", "m", "p" >> @@
    "bmP" :> << "b", "m", "P" >> @@
    "bMp" :> << "b", "M", "p" >> @@
    "bMP" :> << "b", "M", "P" >> @@
    "Bmp" :> << "B", "m", "p" >> @@
    "BmP" :> << "B", "m", "P" >> @@
    "BMp" :> << "B", "M", "p" >> @@
    "BMP" :> << "B", "M", "P" >> @@
    "tiff" :> << "t", "i", "f", "f" >> @@
    "TIFF" :> << "T", "I", "F", "F" >> @@
    "" :> << >> @@
    ".jpg" :> << ".", "j", "p", "g" >> @@
    ".jpeg" :> << ".", "j", "p", "e", "g" >> @@
    ".png" :> << ".", "p", "n", "g" >> @@
    ".gif" :> << ".", "g", "i", "f" >> @@
    ".bmp" :> << ".", "b", "m", "p" >> @@
    ".webp" :> << ".", "w", "e", "b", "p" >> @@
    ".txt" :> << ".", "t", "x", "t" >> @@
    ".PNG" :> << ".", "P", "N", "G" >> @@
    ".JPG" :> << ".", "J", "P", "G" >> @@
    ".Txt" :> << ".", "T", "x", "t" >> @@
    ".JPEG" :> << ".", "J", "P", "E", "G" >> @@
    ".Jpeg" :> << ".", "J", "p", "e", "g" >> @@
    ".WebP" :> << ".", "W", "e", "b", "P" >> @@
    ".Gif" :> << ".", "G", "i", "f" >> @@
    ".BMP" :> << ".", "B", "M", "P" >> @@
    ".jpe" :> << ".", "j", "p", "e" >> @@
    ".tiff" :> << ".", "t", "i", "f", "f" >> @@
    ".TIFF" :> << ".", "T", "I", "F", "F" >>

\* unicode.ToLower on the letters of these strings
LowerChar(c) ==
    CASE c = "B" -> "b"
      [] c = "E" -> "e"
      [] c = "F" -> "f"
      [] c = "G" -> "g"
      [] c = "I" -> "i"
      [] c = "J" -> "j"
      [] c = "M" -> "m"
      [] c = "N" -> "n"
      [] c = "P" -> "p"
      [] c = "T" -> "t"
      [] c = "W" -> "w"
      [] OTHER -> c

\* strings.ToLower on a sequence of characters
Lower(seq) == [i \in 1 .. Len(seq) |-> LowerChar(seq[i])]

\* strings.ToLower on the strings of the model
LowerOf ==
    [s \in DOMAIN Spelling |->
        CHOOSE w \in DOMAIN Spelling : Spelling[w] = Lower(Spelling[s])]

ToLower(s) == LowerOf[s]

FormatJPEG == "jpeg"
FormatPNG == "png"
FormatWebP == "webp"
FormatGIF == "gif"
FormatBMP == "bmp"

\* a classifier that compares the extension as it is written
IsImageFileExact(path) ==
    path.ext \in {".jpg", ".jpeg", ".png", ".gif", ".bmp", ".webp"}

IsImageFile(path) ==
    ToLower(path.ext) \in {".jpg", ".jpeg", ".png", ".gif", ".bmp", ".webp"}

\* the pair (format, err) of DetectFormat
DetectFormat(path) ==
    LET ext == ToLower(path.ext) IN
    CASE ext \in {".jpg", ".jpeg"} -> [format |-> FormatJPEG, err |-> FALSE]
      [] ext = ".png" -> [format |-> FormatPNG, err |-> FALSE]
      [] ext = ".webp" -> [format |-> FormatWebP, err |-> FALSE]
      [] ext = ".gif" -> [format |-> FormatGIF, err |-> FALSE]
      [] ext = ".bmp" -> [format |-> FormatBMP, err |-> FALSE]
      [] OTHER -> [format |-> "", err |-> TRUE]

\* a normalization that lowers the case and leaves jpg as it is
NormalizeFormatNoAlias(format) == ToLower(format)

NormalizeFormat(format) ==
    LET normalizedFormat == ToLower(format) IN
    IF normalizedFormat = "jpg" THEN FormatJPEG ELSE normalizedFormat

\* A path as the code receives it is a sequence of tokens: the separator "/",
\* the dot "." and names that hold neither.
\* the greatest element of a set of positions, 0 when there is none
LastOf(S) == IF S = {} THEN 0 ELSE CHOOSE i \in S : \A j \in S : j <= i

\* filepath.Base
Base(path) ==
    LET n == LastOf({ i \in 1 .. Len(path) : path[i] # "/" })
        k == LastOf({ i \in 1 .. n : path[i] = "/" })
    IN  IF path = << >> THEN << "." >>
        ELSE IF n = 0 THEN << "/" >>
        ELSE SubSeq(path, k + 1, n)

\* filepath.Ext
Ext(path) ==
    LET k == LastOf({ i \in 1 .. Len(path) : path[i] = "/" })
        d == LastOf({ i \in k + 1 .. Len(path) : path[i] = "." })
    IN  IF d = 0 THEN << >> ELSE SubSeq(path, d, Len(path))

\* strings.TrimSuffix
TrimSuffix(s, suffix) ==
    IF Len(suffix) <= Len(s) /\ SubSeq(s, Len(s) - Len(suffix) + 1, Len(s)) = suffix
    THEN SubSeq(s, 1, Len(s) - Len(suffix))
    ELSE s

\* the record of the parts of a path: baseName := filepath.Base(inputPath),
\* ext := filepath.Ext(baseName), strings.TrimSuffix(baseName, ext)
SplitPath(path) ==
    LET baseName == Base(path)
        ext == Ext(baseName)
        k == LastOf({ i \in 1 .. Len(path) : path[i] = "/" })
    IN  [dir |-> SubSeq(path, 1, k), stem |-> TrimSuffix(baseName, ext), ext |-> ext]

\* a file name that takes the default extension whatever the format
GenerateOutputFilenameAlwaysJPG(inputPath, outputFormat) ==
    [stem |-> inputPath.stem, ext |-> ".jpg"]

GenerateOutputFilename(inputPath, outputFormat) ==
    LET newExt ==
            CASE outputFormat = FormatJPEG -> ".jpg"
              [] outputFormat = FormatPNG -> ".png"
              [] outputFormat = FormatWebP -> ".webp"
              [] outputFormat = FormatGIF -> ".gif"
              [] outputFormat = FormatBMP -> ".bmp"
              [] OTHER -> ".jpg"
    IN  [stem |-> inputPath.stem, ext |-> newExt]

GenerateOutputPath(inputPath, outputDir, outputFormat) ==
    LET outputFilename == GenerateOutputFilename(inputPath, outputFormat) IN
    [dir |-> outputDir, stem |-> outputFilename.stem, ext |-> outputFilename.ext]

(***************************************************************************)
(* Geometry.  The sizes are computed in float64.  A float64 x >= 0, or an  *)
(* exact intermediate value, is the record [m, e] whose value is           *)
(*     (m[1] * 2^36 + m[2] * 2^18 + m[3]) * 2^(e - 52)                     *)
(* with m[2] and m[3] below 2^18.  In a float64 the 53 bits of the         *)
(* significand are cut into m[1] (17 bits, Top <= m[1] < 2 * Top) followed *)
(* by m[2] and m[3] (18 bits each), and e is the binary exponent of the    *)
(* value; zero is FloatZero.  An exact product may have a longer m[1].     *)
(* The operands are integers below 2^12, as the sizes of the model are.    *)
(* A scale of the configuration is written num/den, den > 0, and stands    *)
(* for the float64 nearest to that quotient, which is what parsing the     *)
(* decimal gives.                                                          *)
(***************************************************************************)
\* 2^18, the size of m[2] and of m[3]
Limb == 262144
\* 2^16, the least m[1] of a float64
Top == 65536

FloatZero == [m |-> << 0, 0, 0 >>, e |-> 0]

\* Each operator below computes an operand once and then works on its value,
\* as the call by value of Go does: v \in {x} names the value of x.

\* the float64 that follows x
NextUp(x) ==
    LET s3 == x.m[3] + 1
        s2 == x.m[2] + (s3 \div Limb)
        s1 == x.m[1] + (s2 \div Limb)
    IN  IF s1 = 2 * Top THEN [m |-> << Top, 0, 0 >>, e |-> x.e + 1]
        ELSE [m |-> << s1, s2 % Limb, s3 % Limb >>, e |-> x.e]

\* round to nearest, ties to even: x holds the first 53 bits of a value,
\* guard is its 54th bit and rest says that a later bit is not 0
Nearest(x, guard, rest) ==
    CHOOSE r \in { IF guard = 1 /\ (rest \/ v.m[3] % 2 = 1) THEN NextUp(v) ELSE v :
                   v \in {x} } : TRUE

RECURSIVE DivNorm(_, _, _)
\* a/b scaled by a power of two into [1, 2), and that power
DivNorm(a, b, e) ==
    IF a < b THEN DivNorm(2 * a, b, e - 1)
    ELSE IF a >= 2 * b THEN DivNorm(a, 2 * b, e + 1)
    ELSE [a |-> a, b |-> b, e |-> e]

\* the first 53 bits of n.a / n.b by long division, rounded on the rest
Quotient(n) ==
    LET t1 == n.a * Top
        t2 == (t1 % n.b) * Limb
        t3 == (t2 % n.b) * Limb
        t4 == (t3 % n.b) * 2
    IN  Nearest([m |-> << t1 \div n.b, t2 \div n.b, t3 \div n.b >>, e |-> n.e],
                t4 \div n.b, t4 % n.b # 0)

\* a division that divides b by a
FDivInverted(a, b) ==
    CHOOSE r \in { Quotient(n) : n \in {DivNorm(b, a, 0)} } : TRUE

\* float64(a) / float64(b) for integers a >= 0 and b > 0
FDiv(a, b) ==
    IF a = 0 THEN FloatZero
    ELSE CHOOSE r \in { Quotient(n) : n \in {DivNorm(a, b, 0)} } : TRUE

\* the exact product of the integer n > 0 and the float64 x
ExactMul(n, x) ==
    LET p3 == n * x.m[3]
        p2 == n * x.m[2] + (p3 \div Limb)
        p1 == n * x.m[1] + (p2 \div Limb)
    IN  [m |-> << p1, p2 % Limb, p3 % Limb >>, e |-> x.e]

\* the product p, whose first limb has k bits more than that of a float64,
\* rounded to 53 bits
Shorten(p, k) ==
    LET d == 2^k
    IN  IF k = 0 THEN p
        ELSE Nearest([m |-> << p.m[1] \div d,
                               ((p.m[1] % d) * Limb + p.m[2]) \div d,
                               ((p.m[2] % d) * Limb + p.m[3]) \div d >>,
                      e |-> p.e + k],
                     (p.m[3] % d) \div (d \div 2),
                     p.m[3] % (d \div 2) # 0)

\* float64(n) * v for an integer n > 0 and a float64 v > 0
Product(n, v) ==
    CHOOSE r \in
        { Shorten(p, CHOOSE k \in 0 .. 12 : Top * 2^k <= p.m[1] /\ p.m[1] < 2 * Top * 2^k) :
          p \in {ExactMul(n, v)} } : TRUE

\* float64(n) * x for an integer n >= 0, which float64(n) holds exactly
FMul(n, x) ==
    CHOOSE r \in { IF n = 0 \/ v = FloatZero THEN FloatZero ELSE Product(n, v) :
                   v \in {x} } : TRUE

\* x < y for two float64
FLess(x, y) ==
    \/ x.e < y.e
    \/ /\ x.e = y.e
       /\ \/ x.m[1] < y.m[1]
          \/ x.m[1] = y.m[1] /\ x.m[2] < y.m[2]
          \/ x.m[1] = y.m[1] /\ x.m[2] = y.m[2] /\ x.m[3] < y.m[3]

\* a minimum that returns the larger value
FMinLarger(x, y) ==
    CHOOSE r \in { IF FLess(v[2], v[1]) THEN v[1] ELSE v[2] : v \in {<< x, y >>} } : TRUE

\* math.Min of two positive float64
FMin(x, y) ==
    CHOOSE r \in { IF FLess(v[2], v[1]) THEN v[2] ELSE v[1] : v \in {<< x, y >>} } : TRUE

\* the integer part of a float64 shifted right by s bits
IntPart(v, s) ==
    IF s >= 37
    THEN IF s - 36 > 30 THEN 0 ELSE v.m[1] \div 2^(s - 36)
    ELSE v.m[1] * 2^(36 - s) + (v.m[2] \div 2^(s - 18))

\* the first bit of the fraction of a float64 shifted right by s bits
HalfBit(v, s) ==
    IF s >= 37
    THEN IF s - 36 > 30 THEN 0 ELSE (v.m[1] \div 2^(s - 37)) % 2
    ELSE (v.m[2] \div 2^(s - 19)) % 2

\* a conversion to int that drops the fraction instead of rounding it
FRoundDown(x) ==
    CHOOSE r \in { IntPart(v, 52 - v.e) : v \in {x} } : TRUE

\* int(math.Round(x)) for a value x >= 0 below 2^30: the integer part, plus
\* one when the first bit of the fraction is 1 (half away from zero)
FRound(x) ==
    CHOOSE r \in { IntPart(v, 52 - v.e) + HalfBit(v, 52 - v.e) : v \in {x} } : TRUE

\* the float64 held by the Scale field
ScaleFloat(scale) == FDiv(scale.num, scale.den)

\* a size computation that consults the width and height rules before the scale
CalculateOutputSizeWidthFirst(srcWidth, srcHeight, spec) ==
    IF spec.Width > 0
    THEN [w |-> spec.Width, h |-> FRound(FMul(srcHeight, FDiv(spec.Width, srcWidth)))]
    ELSE IF spec.Scale.num > 0
    THEN [w |-> FRound(FMul(srcWidth, ScaleFloat(spec.Scale))),
          h |-> FRound(FMul(srcHeight, ScaleFloat(spec.Scale)))]
    ELSE [w |-> srcWidth, h |-> srcHeight]

CalculateOutputSize(srcWidth, srcHeight, spec) ==
    IF spec.Scale.num > 0
    THEN [w |-> FRound(FMul(srcWidth, ScaleFloat(spec.Scale))),
          h |-> FRound(FMul(srcHeight, ScaleFloat(spec.Scale)))]
    ELSE IF spec.Width > 0 /\ spec.Height > 0
    THEN LET scaleW == FDiv(spec.Width, srcWidth)
             scaleH == FDiv(spec.Height, srcHeight)
             scale == FMin(scaleW, scaleH)
         IN  [w |-> FRound(FMul(srcWidth, scale)),
              h |-> FRound(FMul(srcHeight, scale))]
    ELSE IF spec.Width > 0
    THEN LET scale == FDiv(spec.Width, srcWidth)
         IN  [w |-> spec.Width, h |-> FRound(FMul(srcHeight, scale))]
    ELSE IF spec.Height > 0
    THEN LET scale == FDiv(spec.Height, srcHeight)
         IN  [w |-> FRound(FMul(srcWidth, scale)), h |-> spec.Height]
    ELSE [w |-> srcWidth, h |-> srcHeight]

\* ResizeImage: the image returned, whether it is src itself, and whether
\* image.NewRGBA panicked on dimensions whose buffer length overflows int
ResizeImage(src, spec) ==
    IF spec.Scale.num = 0 /\ spec.Width = 0 /\ spec.Height = 0
    THEN [w |-> src.w, h |-> src.h, same |-> TRUE, panic |-> FALSE]
    ELSE CHOOSE resized \in
           { IF dst.w = src.w /\ dst.h = src.h
             THEN [w |-> src.w, h |-> src.h, same |-> TRUE, panic |-> FALSE]
             ELSE [w |-> dst.w, h |-> dst.h, same |-> FALSE,
                   panic |-> 4 * dst.w * dst.h > MaxInt] :
             dst \in {CalculateOutputSize(src.w, src.h, spec)} } : TRUE

(***************************************************************************)
(* Codec gateway.  A source file carries what the host would find at its   *)
(* path: content "image" (decodable, of w x h pixels), "corrupt" (opens,   *)
(* does not decode) or "missing" (does not open).                          *)
(***************************************************************************)
\* the pair (img, err) of ImageLoader.Load
Load(path) ==
    CASE path.content = "missing" -> [err |-> "open", w |-> 0, h |-> 0]
      [] path.content = "corrupt" -> [err |-> "decode", w |-> 0, h |-> 0]
      [] OTHER -> [err |-> "nil", w |-> path.w, h |-> path.h]

SupportedFormats == {FormatJPEG, FormatPNG, FormatWebP, FormatGIF, FormatBMP}

\* ImageSaver.Save: os.Create comes first, the switch on the format second, so
\* the file exists (empty or partly written) whenever the error is not "create"
Save(img, path, format, quality, e) ==
    IF ~e.writable
    THEN [err |-> "create", created |-> FALSE, encoded |-> FALSE]
    ELSE IF format \notin SupportedFormats
    THEN [err |-> "unsupported", created |-> TRUE, encoded |-> FALSE]
    ELSE IF ~e.encoderOK
    THEN [err |-> "encode", created |-> TRUE, encoded |-> FALSE]
    ELSE [err |-> "nil", created |-> TRUE, encoded |-> TRUE]

NoPath == [dir |-> "", stem |-> "", ext |-> ""]

\* what a ConvertImage call leaves behind: the ConversionResult it returns
\* (SourcePath, OutputPath, Success, Error), whether it panicked instead of
\* returning, the steps it ran, and what Save did to the output file
ConvResult(src, outp, success, error, panicked, ran, created, encoded) ==
    [SourcePath |-> src, OutputPath |-> outp, Success |-> success,
     Error |-> error, panic |-> panicked, ran |-> ran,
     created |-> created, encoded |-> encoded]

ConvertImage(sourcePath, outputDir, cfg, e) ==
    LET loaded == Load(sourcePath)
        resizeSpec == [Scale |-> cfg.Scale, Width |-> cfg.Width, Height |-> cfg.Height]
        resizedImg == ResizeImage(loaded, resizeSpec)
        detected == DetectFormat(sourcePath)
        outputFormat == IF cfg.Format # "" THEN NormalizeFormat(cfg.Format)
                        ELSE detected.format
        outputPath == GenerateOutputPath(sourcePath, outputDir, outputFormat)
        quality == IF cfg.JPEGQuality = 0 THEN DefaultQuality ELSE cfg.JPEGQuality
        saved == Save(resizedImg, outputPath, outputFormat, quality, e)
    IN  IF loaded.err # "nil"
        THEN ConvResult(sourcePath, NoPath, FALSE, "failed to load image", FALSE,
                        << "load" >>, FALSE, FALSE)
        ELSE IF resizedImg.panic
        THEN ConvResult(sourcePath, NoPath, FALSE, "nil", TRUE,
                        << "load", "resize" >>, FALSE, FALSE)
        ELSE IF cfg.Format = "" /\ detected.err
        THEN ConvResult(sourcePath, NoPath, FALSE, "failed to detect format", FALSE,
                        << "load", "resize", "format" >>, FALSE, FALSE)
        ELSE IF saved.err # "nil"
        THEN ConvResult(sourcePath, outputPath, FALSE, "failed to save image", FALSE,
                        << "load", "resize", "format", "path", "save" >>,
                        saved.created, saved.encoded)
        ELSE ConvResult(sourcePath, outputPath, TRUE, "nil", FALSE,
                        << "load", "resize", "format", "path", "save" >>,
                        saved.created, saved.encoded)

\* the value of a result variable before ConvertImage has been called
NoResult == ConvResult(NoPath, NoPath, FALSE, "nil", FALSE, << >>, FALSE, FALSE)

(***************************************************************************)
(* The inputs of the model.                                                *)
(***************************************************************************)
NoScale == [num |-> 0, den |-> 1]

File(stem, ext, content, w, h) ==
    [dir |-> "in", stem |-> stem, ext |-> ext, content |-> content, w |-> w, h |-> h]

\* the directory entries a scan can return, in the order os.ReadDir lists them
FilePool ==
    << File("a", ".jpg", "image", 2, 2),
       File("b", ".PNG", "corrupt", 0, 0),
       File("c", ".Txt", "text", 0, 0),
       File("a", ".png", "image", 4, 2) >>

PoolFiles == { FilePool[k] : k \in 1 .. Len(FilePool) }

RECURSIVE SubSeq2(_, _)
\* the entries of FilePool at the positions of S, in the order of FilePool
SubSeq2(k, S) ==
    IF k > Len(FilePool) THEN << >>
    ELSE IF k \in S THEN << FilePool[k] >> \o SubSeq2(k + 1, S)
    ELSE SubSeq2(k + 1, S)

Batches ==
    { SubSeq2(1, S) : S \in { T \in SUBSET (1 .. Len(FilePool)) : Cardinality(T) <= MaxFiles } }

Config(scale, width, height, format, quality) ==
    [InputDir |-> "in", OutputDir |-> "out", Scale |-> scale, Width |-> width,
     Height |-> height, Format |-> format, JPEGQuality |-> quality]

\* the configurations a batch is run with: no conversion requested, halve and
\* convert to JPEG, a width whose pixel buffer overflows, an unknown format
ConfigPool ==
    { Config(NoScale, 0, 0, "", 0),
      Config([num |-> 1, den |-> 2], 0, 0, "JPG", DefaultQuality),
      Config(NoScale, 4 * MaxInt, 0, "", DefaultQuality),
      Config(NoScale, 0, 0, "TIFF", DefaultQuality) }

EnvPool ==
    { [writable |-> TRUE, encoderOK |-> TRUE],
      [writable |-> FALSE, encoderOK |-> TRUE],
      [writable |-> TRUE, encoderOK |-> FALSE] }

ZeroStats == [Total |-> 0, Success |-> 0, Failed |-> 0, Skipped |-> 0]

(***************************************************************************)
(* NewConverter, on a host with numCPU processors and an input directory   *)
(* holding the entries dir.                                                *)
(***************************************************************************)
\* no pure function has been called directly
NoCalc == [op |-> "none"]

InitWith(cfgs, envs, pc0) ==
    /\ config \in cfgs
    /\ env \in envs
    /\ numCPU \in 1 .. MaxCPU
    /\ dir \in Batches
    /\ stats = ZeroStats
    /\ statsMutex = Free
    /\ outfs = << >>
    /\ pc = pc0
    /\ ret = [t \in Threads |-> "none"]
    /\ run = 0
    /\ files = << >>
    /\ imageFiles = << >>
    /\ ci = 1
    /\ sj = 1
    /\ numWorkers = 0
    /\ sem = 0
    /\ wg = 0
    /\ progressMutex = Free
    /\ processedCount = 0
    /\ currentIndex = [t \in Workers |-> 0]
    /\ result = [t \in Threads |-> NoResult]
    /\ crashed = FALSE
    /\ retErr = "none"
    /\ out = << >>
    /\ convCalls = [f \in PoolFiles |-> 0]
    /\ skipCalls = [f \in PoolFiles |-> 0]
    /\ startStats = ZeroStats
    /\ calls = [succ |-> 0, fail |-> 0, skip |-> 0]
    /\ calc = NoCalc

Init == InitWith(ConfigPool, EnvPool, [t \in Threads |-> IF t = 0 THEN "idle" ELSE "none"])

(***************************************************************************)
(* UpdateStats and IncrementSkipped, run by thread t.                      *)
(***************************************************************************)
statsVars == << stats, statsMutex >>
hostVars == << config, env, numCPU, dir, calc >>
batchVars == << files, imageFiles, ci, sj, numWorkers, sem, wg, progressMutex,
                processedCount, currentIndex >>
histVars == << convCalls, skipCalls, startStats, run, retErr, out >>

\* a mutex that excludes nobody
LockBroken(mutex, t) == TRUE

\* sync.Mutex.Lock returns only while no thread holds the mutex
Lock(mutex, t) == mutex = Free

\* c.statsMutex.Lock()
U_Lock(t) ==
    /\ ~crashed
    /\ pc[t] = "u_lock"
    /\ Lock(statsMutex, t)
    /\ statsMutex' = t
    /\ pc' = [pc EXCEPT ![t] = "u_total"]
    /\ UNCHANGED << stats, hostVars, outfs, ret, batchVars, result, crashed, histVars, calls >>

\* UpdateStats that forgets c.stats.Total++
U_TotalMissing(t) ==
    /\ ~crashed
    /\ pc[t] = "u_total"
    /\ pc' = [pc EXCEPT ![t] = "u_outcome"]
    /\ UNCHANGED << statsVars, hostVars, outfs, ret, batchVars, result, crashed, histVars, calls >>

\* c.stats.Total++
U_Total(t) ==
    /\ ~crashed
    /\ pc[t] = "u_total"
    /\ stats' = [stats EXCEPT !.Total = @ + 1]
    /\ pc' = [pc EXCEPT ![t] = "u_outcome"]
    /\ UNCHANGED << statsMutex, hostVars, outfs, ret, batchVars, result, crashed, histVars, calls >>

\* UpdateStats that counts every result as a success
U_OutcomeAlwaysSuccess(t) ==
    /\ ~crashed
    /\ pc[t] = "u_outcome"
    /\ stats' = [stats EXCEPT !.Success = @ + 1]
    /\ statsMutex' = Free
    /\ pc' = [pc EXCEPT ![t] = ret[t]]
    /\ UNCHANGED << hostVars, outfs, ret, batchVars, result, crashed, histVars, calls >>

\* c.stats.Success++ or c.stats.Failed++, then the deferred Unlock and the return
U_Outcome(t) ==
    /\ ~crashed
    /\ pc[t] = "u_outcome"
    /\ stats' = IF result[t].Success
                THEN [stats EXCEPT !.Success = @ + 1]
                ELSE [stats EXCEPT !.Failed = @ + 1]
    /\ statsMutex' = Free
    /\ pc' = [pc EXCEPT ![t] = ret[t]]
    /\ UNCHANGED << hostVars, outfs, ret, batchVars, result, crashed, histVars, calls >>

\* c.statsMutex.Lock()
S_Lock(t) ==
    /\ ~crashed
    /\ pc[t] = "s_lock"
    /\ Lock(statsMutex, t)
    /\ statsMutex' = t
    /\ pc' = [pc EXCEPT ![t] = "s_total"]
    /\ UNCHANGED << stats, hostVars, outfs, ret, batchVars, result, crashed, histVars, calls >>

\* c.stats.Total++
S_Total(t) ==
    /\ ~crashed
    /\ pc[t] = "s_total"
    /\ stats' = [stats EXCEPT !.Total = @ + 1]
    /\ pc' = [pc EXCEPT ![t] = "s_skipped"]
    /\ UNCHANGED << statsMutex, hostVars, outfs, ret, batchVars, result, crashed, histVars, calls >>

\* c.stats.Skipped++, then the deferred Unlock and the return
S_Skipped(t) ==
    /\ ~crashed
    /\ pc[t] = "s_skipped"
    /\ stats' = [stats EXCEPT !.Skipped = @ + 1]
    /\ statsMutex' = Free
    /\ pc' = [pc EXCEPT ![t] = ret[t]]
    /\ UNCHANGED << hostVars, outfs, ret, batchVars, result, crashed, histVars, calls >>

(***************************************************************************)
(* ProcessDirectory, run by thread 0.                                      *)
(***************************************************************************)
\* a call of ProcessDirectory on the Converter: the first one, or a further
\* one after the previous call has returned
Call ==
    /\ ~crashed
    /\ pc[0] \in {"idle", "returned"}
    /\ run < MaxRuns
    /\ run' = run + 1
    /\ pc' = [t \in Threads |-> IF t = 0 THEN "scan" ELSE "none"]
    /\ files' = << >>
    /\ imageFiles' = << >>
    /\ ci' = 1
    /\ sj' = 1
    /\ numWorkers' = 0
    /\ sem' = 0
    /\ wg' = 0
    /\ progressMutex' = Free
    /\ processedCount' = 0
    /\ currentIndex' = [t \in Workers |-> 0]
    /\ result' = [t \in Threads |-> NoResult]
    /\ retErr' = "none"
    /\ out' = << >>
    /\ convCalls' = [f \in PoolFiles |-> 0]
    /\ skipCalls' = [f \in PoolFiles |-> 0]
    /\ startStats' = stats
    /\ UNCHANGED << statsVars, hostVars, outfs, ret, crashed, calls >>

\* files, err := fsManager.ScanDirectory(inputDir), err == nil
Scan ==
    /\ ~crashed
    /\ pc[0] = "scan"
    /\ files' = dir
    /\ pc' = [pc EXCEPT ![0] = "classify"]
    /\ UNCHANGED << statsVars, hostVars, outfs, ret, imageFiles, ci, sj, numWorkers,
                    sem, wg, progressMutex, processedCount, currentIndex, result,
                    crashed, histVars, calls >>

\* a scan failure that is also counted as a skipped file
ScanFailSkips ==
    /\ ~crashed
    /\ pc[0] = "scan"
    /\ retErr' = "failed to scan directory"
    /\ stats' = [stats EXCEPT !.Total = @ + 1, !.Skipped = @ + 1]
    /\ pc' = [pc EXCEPT ![0] = "returned"]
    /\ UNCHANGED << statsMutex, hostVars, outfs, ret, batchVars, result, crashed,
                    convCalls, skipCalls, startStats, run, out, calls >>

\* err != nil: return fmt.Errorf("failed to scan directory: %w", err)
ScanFail ==
    /\ ~crashed
    /\ pc[0] = "scan"
    /\ retErr' = "failed to scan directory"
    /\ pc' = [pc EXCEPT ![0] = "returned"]
    /\ UNCHANGED << statsVars, hostVars, outfs, ret, batchVars, result, crashed,
                    convCalls, skipCalls, startStats, run, out, calls >>

\* a classification loop that starts the goroutine of an image file at once
ClassifyImageDispatches ==
    /\ ~crashed
    /\ pc[0] = "classify"
    /\ ci <= Len(files)
    /\ IsImageFile(files[ci])
    /\ imageFiles' = Append(imageFiles, files[ci])
    /\ ci' = ci + 1
    /\ wg' = wg + 1
    /\ pc' = [pc EXCEPT ![Len(imageFiles) + 1] = "sem"]
    /\ UNCHANGED << statsVars, hostVars, outfs, ret, files, sj, numWorkers, sem,
                    progressMutex, processedCount, currentIndex, result, crashed,
                    histVars, calls >>

\* the classification loop, on an image file: imageFiles = append(imageFiles, file)
ClassifyImage ==
    /\ ~crashed
    /\ pc[0] = "classify"
    /\ ci <= Len(files)
    /\ IsImageFile(files[ci])
    /\ imageFiles' = Append(imageFiles, files[ci])
    /\ ci' = ci + 1
    /\ UNCHANGED << statsVars, hostVars, outfs, pc, ret, files, sj, numWorkers, sem, wg,
                    progressMutex, processedCount, currentIndex, result, crashed,
                    histVars, calls >>

\* a classification loop that counts the file as skipped and dispatches it too
ClassifySkipConverts ==
    /\ ~crashed
    /\ pc[0] = "classify"
    /\ ci <= Len(files)
    /\ ~IsImageFile(files[ci])
    /\ skipCalls' = [skipCalls EXCEPT ![files[ci]] = @ + 1]
    /\ imageFiles' = Append(imageFiles, files[ci])
    /\ ci' = ci + 1
    /\ pc' = [pc EXCEPT ![0] = "s_lock"]
    /\ ret' = [ret EXCEPT ![0] = "classify"]
    /\ UNCHANGED << statsVars, hostVars, outfs, files, sj, numWorkers, sem,
                    wg, progressMutex, processedCount, currentIndex, result, crashed,
                    convCalls, startStats, run, retErr, out, calls >>

\* the classification loop, on any other file: c.IncrementSkipped()
ClassifySkip ==
    /\ ~crashed
    /\ pc[0] = "classify"
    /\ ci <= Len(files)
    /\ ~IsImageFile(files[ci])
    /\ skipCalls' = [skipCalls EXCEPT ![files[ci]] = @ + 1]
    /\ ci' = ci + 1
    /\ pc' = [pc EXCEPT ![0] = "s_lock"]
    /\ ret' = [ret EXCEPT ![0] = "classify"]
    /\ UNCHANGED << statsVars, hostVars, outfs, files, imageFiles, sj, numWorkers, sem,
                    wg, progressMutex, processedCount, currentIndex, result, crashed,
                    convCalls, startStats, run, retErr, out, calls >>

\* after the loop: the two Printf, numWorkers := runtime.NumCPU(), the channel,
\* the WaitGroup, the progress mutex and processedCount := 0
Announce ==
    /\ ~crashed
    /\ pc[0] = "classify"
    /\ ci > Len(files)
    /\ numWorkers' = numCPU
    /\ sem' = 0
    /\ wg' = 0
    /\ progressMutex' = Free
    /\ processedCount' = 0
    /\ out' = out \o << [k |-> "processing", n |-> Len(imageFiles)],
                        [k |-> "using", n |-> numCPU] >>
    /\ sj' = 1
    /\ pc' = [pc EXCEPT ![0] = "spawn"]
    /\ UNCHANGED << statsVars, hostVars, outfs, ret, files, imageFiles, ci, currentIndex,
                    result, crashed, convCalls, skipCalls, startStats, run, retErr, calls >>

\* the dispatch loop: wg.Add(1); go func(f string) {...}(file)
Spawn ==
    /\ ~crashed
    /\ pc[0] = "spawn"
    /\ sj <= Len(imageFiles)
    /\ wg' = wg + 1
    /\ pc' = [pc EXCEPT ![sj] = "sem"]
    /\ sj' = sj + 1
    /\ UNCHANGED << statsVars, hostVars, outfs, ret, files, imageFiles, ci, numWorkers,
                    sem, progressMutex, processedCount, currentIndex, result, crashed,
                    histVars, calls >>

\* wg.Wait() is reached
SpawnDone ==
    /\ ~crashed
    /\ pc[0] = "spawn"
    /\ sj > Len(imageFiles)
    /\ pc' = [pc EXCEPT ![0] = "wait"]
    /\ UNCHANGED << statsVars, hostVars, outfs, ret, batchVars, result, crashed,
                    histVars, calls >>

\* a coordinator that does not wait for the goroutines
WaitNoBarrier ==
    /\ ~crashed
    /\ pc[0] = "wait"
    /\ pc' = [pc EXCEPT ![0] = "summary"]
    /\ UNCHANGED << statsVars, hostVars, outfs, ret, batchVars, result, crashed,
                    histVars, calls >>

\* wg.Wait() returns
Wait ==
    /\ ~crashed
    /\ pc[0] = "wait"
    /\ wg = 0
    /\ pc' = [pc EXCEPT ![0] = "summary"]
    /\ UNCHANGED << statsVars, hostVars, outfs, ret, batchVars, result, crashed,
                    histVars, calls >>

\* the summary Printf of c.stats and return nil
Summary ==
    /\ ~crashed
    /\ pc[0] = "summary"
    /\ out' = Append(out, [k |-> "summary", stats |-> stats])
    /\ retErr' = "nil"
    /\ pc' = [pc EXCEPT ![0] = "returned"]
    /\ UNCHANGED << statsVars, hostVars, outfs, ret, batchVars, result, crashed,
                    convCalls, skipCalls, startStats, run, calls >>

(***************************************************************************)
(* The goroutine of imageFiles[i], run by thread i.                        *)
(***************************************************************************)
\* a send on a channel that never blocks
W_AcquireNoLimit(i) ==
    /\ ~crashed
    /\ pc[i] = "sem"
    /\ sem' = sem + 1
    /\ pc' = [pc EXCEPT ![i] = "plock"]
    /\ UNCHANGED << statsVars, hostVars, outfs, ret, files, imageFiles, ci, sj,
                    numWorkers, wg, progressMutex, processedCount, currentIndex,
                    result, crashed, histVars, calls >>

\* sem <- struct{}{}: blocks while the channel is full
W_Acquire(i) ==
    /\ ~crashed
    /\ pc[i] = "sem"
    /\ sem < numWorkers
    /\ sem' = sem + 1
    /\ pc' = [pc EXCEPT ![i] = "plock"]
    /\ UNCHANGED << statsVars, hostVars, outfs, ret, files, imageFiles, ci, sj,
                    numWorkers, wg, progressMutex, processedCount, currentIndex,
                    result, crashed, histVars, calls >>

\* progressMutex.Lock() before the prefix
W_ProgressLock(i) ==
    /\ ~crashed
    /\ pc[i] = "plock"
    /\ Lock(progressMutex, i)
    /\ progressMutex' = i
    /\ pc' = [pc EXCEPT ![i] = "pinc"]
    /\ UNCHANGED << statsVars, hostVars, outfs, ret, files, imageFiles, ci, sj,
                    numWorkers, sem, wg, processedCount, currentIndex, result,
                    crashed, histVars, calls >>

\* processedCount++
W_Increment(i) ==
    /\ ~crashed
    /\ pc[i] = "pinc"
    /\ processedCount' = processedCount + 1
    /\ pc' = [pc EXCEPT ![i] = "pidx"]
    /\ UNCHANGED << statsVars, hostVars, outfs, ret, files, imageFiles, ci, sj,
                    numWorkers, sem, wg, progressMutex, currentIndex, result,
                    crashed, histVars, calls >>

\* currentIndex := processedCount; Printf("[%d/%d] Converting %s... "); Unlock
W_Prefix(i) ==
    /\ ~crashed
    /\ pc[i] = "pidx"
    /\ currentIndex' = [currentIndex EXCEPT ![i] = processedCount]
    /\ out' = Append(out, [k |-> "prefix", idx |-> processedCount,
                           n |-> Len(imageFiles), f |-> imageFiles[i], w |-> i])
    /\ progressMutex' = Free
    /\ pc' = [pc EXCEPT ![i] = "convert"]
    /\ UNCHANGED << statsVars, hostVars, outfs, ret, files, imageFiles, ci, sj,
                    numWorkers, sem, wg, processedCount, result, crashed,
                    convCalls, skipCalls, startStats, run, retErr, calls >>

\* the output directory after a ConvertImage call that left r behind
WriteFile(fs, r) ==
    IF r.created
    THEN ([stem |-> r.OutputPath.stem, ext |-> r.OutputPath.ext]
            :> (IF r.encoded THEN "complete" ELSE "partial")) @@ fs
    ELSE fs

\* a goroutine that converts a file again when its first conversion failed
W_ConvertRetry(i) ==
    /\ ~crashed
    /\ pc[i] = "convert"
    /\ LET r == ConvertImage(imageFiles[i], config.OutputDir, config, env)
           again == ~r.Success /\ ~r.panic /\ convCalls[imageFiles[i]] = 0
       IN
        /\ convCalls' = [convCalls EXCEPT ![imageFiles[i]] = @ + 1]
        /\ outfs' = WriteFile(outfs, r)
        /\ result' = [result EXCEPT ![i] = r]
        /\ crashed' = r.panic
        /\ pc' = [pc EXCEPT ![i] = IF r.panic THEN "panicked"
                                   ELSE IF again THEN "convert" ELSE "u_lock"]
        /\ ret' = [ret EXCEPT ![i] = "rlock"]
    /\ UNCHANGED << statsVars, hostVars, batchVars, skipCalls, startStats, run,
                    retErr, out, calls >>

\* result := c.ConvertImage(f, outputDir), followed by the call c.UpdateStats(result);
\* a panic in the goroutine is recovered nowhere and ends the process
W_Convert(i) ==
    /\ ~crashed
    /\ pc[i] = "convert"
    /\ LET r == ConvertImage(imageFiles[i], config.OutputDir, config, env) IN
        /\ convCalls' = [convCalls EXCEPT ![imageFiles[i]] = @ + 1]
        /\ outfs' = WriteFile(outfs, r)
        /\ result' = [result EXCEPT ![i] = r]
        /\ crashed' = r.panic
        /\ pc' = [pc EXCEPT ![i] = IF r.panic THEN "panicked" ELSE "u_lock"]
        /\ ret' = [ret EXCEPT ![i] = "rlock"]
    /\ UNCHANGED << statsVars, hostVars, batchVars, skipCalls, startStats, run,
                    retErr, out, calls >>

\* progressMutex.Lock() before the outcome
W_ResultLock(i) ==
    /\ ~crashed
    /\ pc[i] = "rlock"
    /\ Lock(progressMutex, i)
    /\ progressMutex' = i
    /\ pc' = [pc EXCEPT ![i] = "rprint"]
    /\ UNCHANGED << statsVars, hostVars, outfs, ret, files, imageFiles, ci, sj,
                    numWorkers, sem, wg, processedCount, currentIndex, result,
                    crashed, histVars, calls >>

\* Printf("OK\n") or Printf("FAILED (%v)\n", result.Error); Unlock
W_PrintResult(i) ==
    /\ ~crashed
    /\ pc[i] = "rprint"
    /\ out' = Append(out, [k |-> IF result[i].Success THEN "ok" ELSE "failed",
                           cause |-> result[i].Error, w |-> i])
    /\ progressMutex' = Free
    /\ pc' = [pc EXCEPT ![i] = "release"]
    /\ UNCHANGED << statsVars, hostVars, outfs, ret, files, imageFiles, ci, sj,
                    numWorkers, sem, wg, processedCount, currentIndex, result,
                    crashed, convCalls, skipCalls, startStats, run, retErr, calls >>

\* a goroutine that exits without giving its slot back
W_ReleaseLeak(i) ==
    /\ ~crashed
    /\ pc[i] = "release"
    /\ pc' = [pc EXCEPT ![i] = "wgdone"]
    /\ UNCHANGED << statsVars, hostVars, outfs, ret, files, imageFiles, ci, sj,
                    numWorkers, sem, wg, progressMutex, processedCount, currentIndex,
                    result, crashed, histVars, calls >>

\* a goroutine that receives from the channel twice
W_ReleaseTwice(i) ==
    /\ ~crashed
    /\ pc[i] = "release"
    /\ sem' = IF sem >= 2 THEN sem - 2 ELSE 0
    /\ pc' = [pc EXCEPT ![i] = "wgdone"]
    /\ UNCHANGED << statsVars, hostVars, outfs, ret, files, imageFiles, ci, sj,
                    numWorkers, wg, progressMutex, processedCount, currentIndex,
                    result, crashed, histVars, calls >>

\* the deferred <-sem
W_Release(i) ==
    /\ ~crashed
    /\ pc[i] = "release"
    /\ sem' = sem - 1
    /\ pc' = [pc EXCEPT ![i] = "wgdone"]
    /\ UNCHANGED << statsVars, hostVars, outfs, ret, files, imageFiles, ci, sj,
                    numWorkers, wg, progressMutex, processedCount, currentIndex,
                    result, crashed, histVars, calls >>

\* the deferred wg.Done()
W_Done(i) ==
    /\ ~crashed
    /\ pc[i] = "wgdone"
    /\ wg' = wg - 1
    /\ pc' = [pc EXCEPT ![i] = "exited"]
    /\ UNCHANGED << statsVars, hostVars, outfs, ret, files, imageFiles, ci, sj,
                    numWorkers, sem, progressMutex, processedCount, currentIndex,
                    result, crashed, histVars, calls >>

Worker(i) ==
    \/ W_Acquire(i)
    \/ W_ProgressLock(i)
    \/ W_Increment(i)
    \/ W_Prefix(i)
    \/ W_Convert(i)
    \/ U_Lock(i)
    \/ U_Total(i)
    \/ U_Outcome(i)
    \/ W_ResultLock(i)
    \/ W_PrintResult(i)
    \/ W_Release(i)
    \/ W_Done(i)

Coordinator ==
    \/ Call
    \/ Scan
    \/ ScanFail
    \/ ClassifyImage
    \/ ClassifySkip
    \/ S_Lock(0)
    \/ S_Total(0)
    \/ S_Skipped(0)
    \/ Announce
    \/ Spawn
    \/ SpawnDone
    \/ Wait
    \/ Summary

Next == Coordinator \/ \E i \in Workers : Worker(i)

Spec == Init /\ [][Next]_vars

(***************************************************************************)
(* Termination of a batch needs every goroutine that can run to run, which *)
(* the Go scheduler provides; the caller is free not to call again.        *)
(***************************************************************************)
CoordinatorRun ==
    \/ Scan
    \/ ScanFail
    \/ ClassifyImage
    \/ ClassifySkip
    \/ S_Lock(0)
    \/ S_Total(0)
    \/ S_Skipped(0)
    \/ Announce
    \/ Spawn
    \/ SpawnDone
    \/ Wait
    \/ Summary

LiveSpec ==
    /\ Init
    /\ [][Next]_vars
    /\ WF_vars(CoordinatorRun)
    /\ \A i \in Workers : WF_vars(Worker(i))

(***************************************************************************)
(* The stats methods called directly, by any number of goroutines at once  *)
(* (TestConverter_UpdateStats, TestConverter_IncrementSkipped).            *)
(***************************************************************************)
NumCalls == calls.succ + calls.fail + calls.skip

\* converter.UpdateStats(result) with result.Success = success
CallUpdateStats(t, success) ==
    /\ ~crashed
    /\ pc[t] = "ext"
    /\ NumCalls < MaxCalls
    /\ calls' = IF success THEN [calls EXCEPT !.succ = @ + 1]
                ELSE [calls EXCEPT !.fail = @ + 1]
    /\ result' = [result EXCEPT ![t] =
                     ConvResult(NoPath, NoPath, success,
                                IF success THEN "nil" ELSE "file does not exist",
                                FALSE, << >>, FALSE, FALSE)]
    /\ pc' = [pc EXCEPT ![t] = "u_lock"]
    /\ ret' = [ret EXCEPT ![t] = "ext"]
    /\ UNCHANGED << statsVars, hostVars, outfs, batchVars, crashed, histVars >>

\* converter.IncrementSkipped()
CallIncrementSkipped(t) ==
    /\ ~crashed
    /\ pc[t] = "ext"
    /\ NumCalls < MaxCalls
    /\ calls' = [calls EXCEPT !.skip = @ + 1]
    /\ pc' = [pc EXCEPT ![t] = "s_lock"]
    /\ ret' = [ret EXCEPT ![t] = "ext"]
    /\ UNCHANGED << statsVars, hostVars, outfs, batchVars, result, crashed, histVars >>

InitStats ==
    /\ InitWith({Config(NoScale, 0, 0, "", DefaultQuality)},
                {[writable |-> TRUE, encoderOK |-> TRUE]}, [t \in Threads |-> "ext"])
    /\ Len(dir) = 0
    /\ numCPU = 1

NextStats ==
    \E t \in Threads :
        \/ \E success \in BOOLEAN : CallUpdateStats(t, success)
        \/ CallIncrementSkipped(t)
        \/ U_Lock(t)
        \/ U_Total(t)
        \/ U_Outcome(t)
        \/ S_Lock(t)
        \/ S_Total(t)
        \/ S_Skipped(t)

SpecStats == InitStats /\ [][NextStats]_vars

(***************************************************************************)
(* ConvertImage called directly on one source file                         *)
(* (the ConvertImage tests of the converter package).                      *)
(***************************************************************************)
ConvFiles ==
    { File("a", ".jpg", "image", 2, 2),
      File("a", ".png", "image", 4, 2),
      File("t", ".png", "image", 1, 4),
      File("b", ".Txt", "image", 2, 2),
      File("e", "", "image", 2, 2),
      File("c", ".PNG", "corrupt", 0, 0),
      File("d", ".gif", "missing", 0, 0) }

ConvScales ==
    { [num |-> -1, den |-> 2], NoScale, [num |-> 1, den |-> 8], [num |-> 1, den |-> 2],
      [num |-> 1, den |-> 1], [num |-> 2, den |-> 1], [num |-> 4 * MaxInt, den |-> 1] }

ConvConfigs ==
    { Config(s, w, h, f, q) :
        s \in ConvScales, w \in {-1, 0, 3, 4 * MaxInt}, h \in {0, 1, 3},
        f \in {"", "JPG", "Png", "webp", "TIFF"}, q \in {0, 70} }

ConvEnvs == [writable : BOOLEAN, encoderOK : BOOLEAN]

InitConv ==
    /\ InitWith(ConvConfigs, ConvEnvs, [t \in Threads |-> IF t = 0 THEN "conv" ELSE "none"])
    /\ Len(dir) = 0
    /\ numCPU = 1

\* result := converter.ConvertImage(sourcePath, outputDir)
ConvCall(sourcePath) ==
    /\ ~crashed
    /\ pc[0] = "conv"
    /\ LET r == ConvertImage(sourcePath, config.OutputDir, config, env) IN
        /\ outfs' = WriteFile(outfs, r)
        /\ result' = [result EXCEPT ![0] = r]
        /\ crashed' = r.panic
        /\ pc' = [pc EXCEPT ![0] = IF r.panic THEN "panicked" ELSE "conv_done"]
    /\ UNCHANGED << statsVars, hostVars, ret, batchVars, histVars, calls >>

NextConv == \E sourcePath \in ConvFiles : ConvCall(sourcePath)

SpecConv == InitConv /\ [][NextConv]_vars

(***************************************************************************)
(* CalculateOutputSize and ResizeImage called directly on a source size    *)
(* and a resize request (the property tests of resize.go).                 *)
(***************************************************************************)
\* the widths and heights of the sources
SizeSources == (1 .. MaxDim) \cup {14, 21}

\* the Width and Height fields of the requests, 0 for unset
SizeTargets == (0 .. MaxDim) \cup {17}

\* the Scale fields of the requests, 0 for unset
SizeScales ==
    { NoScale, [num |-> 1, den |-> 6], [num |-> 1, den |-> 2], [num |-> 7, den |-> 10],
      [num |-> 1, den |-> 1], [num |-> 3, den |-> 2] }

SizeSpecs == [Scale : SizeScales, Width : SizeTargets, Height : SizeTargets]

InitSize ==
    /\ InitWith({Config(NoScale, 0, 0, "", DefaultQuality)},
                {[writable |-> TRUE, encoderOK |-> TRUE]}, [t \in Threads |-> "none"])
    /\ Len(dir) = 0
    /\ numCPU = 1

\* dstWidth, dstHeight := rc.CalculateOutputSize(srcWidth, srcHeight, spec)
SizeCall(srcWidth, srcHeight, spec) ==
    /\ calc = NoCalc
    /\ calc' = [op |-> "CalculateOutputSize", srcWidth |-> srcWidth,
                srcHeight |-> srcHeight, spec |-> spec,
                dst |-> CalculateOutputSize(srcWidth, srcHeight, spec)]
    /\ UNCHANGED << statsVars, config, env, numCPU, dir, outfs, pc, ret, batchVars,
                    result, crashed, histVars, calls >>

\* result := rc.ResizeImage(src, spec) on a source of srcWidth x srcHeight pixels
ResizeCall(srcWidth, srcHeight, spec) ==
    /\ calc = NoCalc
    /\ calc' = [op |-> "ResizeImage", srcWidth |-> srcWidth,
                srcHeight |-> srcHeight, spec |-> spec,
                dst |-> CalculateOutputSize(srcWidth, srcHeight, spec),
                img |-> ResizeImage([w |-> srcWidth, h |-> srcHeight], spec)]
    /\ UNCHANGED << statsVars, config, env, numCPU, dir, outfs, pc, ret, batchVars,
                    result, crashed, histVars, calls >>

NextSize ==
    \E srcWidth \in SizeSources, srcHeight \in SizeSources, spec \in SizeSpecs :
        \/ SizeCall(srcWidth, srcHeight, spec)
        \/ ResizeCall(srcWidth, srcHeight, spec)

SpecSize == InitSize /\ [][NextSize]_vars

(***************************************************************************)
(* NormalizeFormat and GenerateOutputPath called directly (the tests of    *)
(* format_test.go).                                                        *)
(***************************************************************************)
PathTokens == {"photo", "jpg", ".", "/"}

\* the paths of files: at most MaxPath tokens, the last one not a separator
SourcePaths ==
    { p \in UNION { [1 .. n -> PathTokens] : n \in 1 .. MaxPath } : p[Len(p)] # "/" }

OutputDirs == {"out", "converted"}

InitFormat ==
    /\ InitWith({Config(NoScale, 0, 0, "", DefaultQuality)},
                {[writable |-> TRUE, encoderOK |-> TRUE]}, [t \in Threads |-> "none"])
    /\ Len(dir) = 0
    /\ numCPU = 1

\* fd.NormalizeFormat(format), and NormalizeFormat of what it returned
NormalizeCall(format) ==
    /\ calc = NoCalc
    /\ calc' = [op |-> "NormalizeFormat", format |-> format,
                out |-> NormalizeFormat(format),
                again |-> NormalizeFormat(NormalizeFormat(format))]
    /\ UNCHANGED << statsVars, config, env, numCPU, dir, outfs, pc, ret, batchVars,
                    result, crashed, histVars, calls >>

\* fd.GenerateOutputPath(inputPath, outputDir, outputFormat)
PathCall(inputPath, outputDir, outputFormat) ==
    /\ calc = NoCalc
    /\ calc' = [op |-> "GenerateOutputPath", inputPath |-> inputPath,
                outputDir |-> outputDir, outputFormat |-> outputFormat,
                out |-> GenerateOutputPath(SplitPath(inputPath), outputDir, outputFormat)]
    /\ UNCHANGED << statsVars, config, env, numCPU, dir, outfs, pc, ret, batchVars,
                    result, crashed, histVars, calls >>

\* the extensions of source files: the strings that start with a dot, and ""
Extensions == { s \in DOMAIN Spelling : s = "" \/ Spelling[s][1] = "." }

\* fsm.IsImageFile(path) and fd.DetectFormat(path) on a path with the extension ext
DetectCall(ext) ==
    /\ calc = NoCalc
    /\ LET path == [dir |-> "in", stem |-> "photo", ext |-> ext] IN
        calc' = [op |-> "DetectFormat", ext |-> ext,
                 isImage |-> IsImageFile(path), detected |-> DetectFormat(path)]
    /\ UNCHANGED << statsVars, config, env, numCPU, dir, outfs, pc, ret, batchVars,
                    result, crashed, histVars, calls >>

NextFormat ==
    \/ \E format \in DOMAIN Spelling : NormalizeCall(format)
    \/ \E ext \in Extensions : DetectCall(ext)
    \/ \E inputPath \in SourcePaths, outputDir \in OutputDirs,
          outputFormat \in SupportedFormats \cup {"tiff"} :
             PathCall(inputPath, outputDir, outputFormat)

SpecFormat == InitFormat /\ [][NextFormat]_vars

(***************************************************************************)
(* Properties.                                                             *)
(***************************************************************************)
\* ProcessDirectory has printed the summary and returned nil
ReturnedOK == pc[0] = "returned" /\ retErr = "nil"

Decodable(f) == IsImageFile(f) /\ Load(f).err = "nil"
Corrupt(f) == IsImageFile(f) /\ Load(f).err # "nil"

NumDecodable == Cardinality({ k \in 1 .. Len(files) : Decodable(files[k]) })
NumCorrupt == Cardinality({ k \in 1 .. Len(files) : Corrupt(files[k]) })
NumNonImage == Cardinality({ k \in 1 .. Len(files) : ~IsImageFile(files[k]) })

\* the save step works for every image that decodes: the output file can be
\* created, the output format is one Save knows and the encoder reports no error
SaveWorks ==
    /\ env.writable
    /\ env.encoderOK
    /\ config.Format = "" \/ NormalizeFormat(config.Format) \in SupportedFormats

\* C1 as stated: when the first ProcessDirectory call on a Converter returns,
\* Success is the number of decodable images of the batch, Failed the number of
\* corrupt images, Skipped the number of non-image files and Total the number
\* of files.
C1_CountsByDecodability ==
    (ReturnedOK /\ run = 1) =>
        stats = [Total |-> Len(files), Success |-> NumDecodable,
                 Failed |-> NumCorrupt, Skipped |-> NumNonImage]

\* C1 amended: when the first ProcessDirectory call on a Converter returns,
\* Success is the number of decodable images whose output was saved, Failed the
\* number of images that are corrupt or whose output could not be saved,
\* Skipped the number of non-image files and Total the number of files, under
\* every interleaving of the workers.
C1_BatchCounts ==
    (ReturnedOK /\ run = 1) =>
        stats = [Total |-> Len(files),
                 Success |-> IF SaveWorks THEN NumDecodable ELSE 0,
                 Failed |-> IF SaveWorks THEN NumCorrupt ELSE NumCorrupt + NumDecodable,
                 Skipped |-> NumNonImage]

\* a first run has returned on a batch of one decodable, one corrupt and one
\* non-image file, with the decodable image saved
C1_Witness ==
    /\ ReturnedOK /\ run = 1
    /\ SaveWorks
    /\ NumDecodable = 1 /\ NumCorrupt = 1 /\ NumNonImage = 1
    /\ stats.Success = 1

\* C2: no image file is converted more than once, and when ProcessDirectory
\* returns ConvertImage has been called exactly once for every file classified
\* as an image, whatever the outcomes of the other files and the order in
\* which they completed.
C2_FailureIsolation ==
    /\ \A f \in PoolFiles : convCalls[f] <= 1
    /\ ReturnedOK =>
          \A k \in 1 .. Len(files) : IsImageFile(files[k]) => convCalls[files[k]] = 1

\* a batch has returned in which a file failed, dispatched before a file that
\* succeeded, and the failure was reported before the success
C2_Witness ==
    /\ ReturnedOK
    /\ \E i, j \in 1 .. Len(imageFiles) :
          /\ i < j
          /\ ~result[i].Success /\ result[j].Success
          /\ convCalls[imageFiles[i]] = 1 /\ convCalls[imageFiles[j]] = 1
    /\ \E p, q \in 1 .. Len(out) : p < q /\ out[p].k = "failed" /\ out[q].k = "ok"

\* the goroutine of imageFiles[i] is past its UpdateStats call
Folded(i) == pc[i] \in {"rlock", "rprint", "release", "wgdone", "exited"}

\* C3: while ProcessDirectory prints the summary, and after it has returned,
\* every dispatched file's goroutine is past UpdateStats and the stats hold
\* one outcome per dispatched file.
C3_FullBarrier ==
    (pc[0] = "summary" \/ ReturnedOK) =>
        /\ \A i \in 1 .. Len(imageFiles) : Folded(i)
        /\ (stats.Success + stats.Failed) - (startStats.Success + startStats.Failed)
              = Len(imageFiles)

\* the summary is about to be printed for a batch of more images than slots
C3_Witness ==
    /\ pc[0] = "summary"
    /\ Len(imageFiles) > numWorkers
    /\ \A i \in 1 .. Len(imageFiles) : pc[i] = "exited"

\* the goroutine of imageFiles[i] holds an admission slot
Holding(i) ==
    pc[i] \in {"plock", "pinc", "pidx", "convert", "panicked", "u_lock", "u_total",
               "u_outcome", "rlock", "rprint", "release"}

\* C4: at any time at most numWorkers goroutines hold an admission slot.
C4_BoundedConcurrency ==
    /\ Cardinality({ i \in Workers : Holding(i) }) <= numWorkers
    /\ sem = Cardinality({ i \in Workers : Holding(i) })

\* every slot is taken and a further goroutine is blocked on the channel
C4_Witness ==
    /\ numWorkers >= 1
    /\ Cardinality({ i \in Workers : Holding(i) }) = numWorkers
    /\ \E i \in Workers : pc[i] = "sem"
    /\ \E i \in Workers : pc[i] = "convert"

IsPrefix(e) == e.k = "prefix"
\* the "[i/N] Converting ..." prefixes printed so far, in the order printed
Prefixes == SelectSeq(out, IsPrefix)

\* C5: no two goroutines hold the same progress index, the k-th index assigned
\* is k, and when the batch has returned the indices assigned are exactly
\* 1..N for N image files.
C5_UniqueProgressIndices ==
    /\ \A i, j \in Workers :
          (i # j /\ currentIndex[i] # 0) => currentIndex[i] # currentIndex[j]
    /\ \A k \in 1 .. Len(Prefixes) :
          Prefixes[k].idx = k /\ currentIndex[Prefixes[k].w] = k
    /\ ReturnedOK =>
          { currentIndex[i] : i \in 1 .. Len(imageFiles) } = 1 .. Len(imageFiles)

\* a batch of three images has returned whose indices were not assigned in
\* dispatch order
C5_Witness ==
    /\ ReturnedOK
    /\ Len(imageFiles) = 3
    /\ currentIndex[1] = 3 /\ currentIndex[3] = 1

\* C6: whenever the stats mutex is free, Total = Success + Failed + Skipped;
\* and once every call has returned, Success, Failed and Skipped are the
\* numbers of UpdateStats(success), UpdateStats(failure) and IncrementSkipped
\* calls made and Total is the number of all calls.
C6_StatsInvariant ==
    /\ statsMutex = Free =>
          stats.Total = stats.Success + stats.Failed + stats.Skipped
    /\ (\A t \in Threads : pc[t] = "ext") =>
          stats = [Total |-> NumCalls, Success |-> calls.succ,
                   Failed |-> calls.fail, Skipped |-> calls.skip]

\* calls of all three kinds have returned while a further call waits
C6_Witness ==
    /\ statsMutex = Free
    /\ stats.Success >= 1 /\ stats.Failed >= 1 /\ stats.Skipped >= 1
    /\ \E t \in Threads : pc[t] \in {"u_lock", "s_lock"}

\* C7: a ProcessDirectory call eventually returns, unless a ConvertImage call
\* does not return (it panics).
C7_Termination == (pc[0] = "scan") ~> (pc[0] = "returned" \/ crashed)

\* a batch of more images than slots has returned with every image failed
C7_Witness ==
    /\ ReturnedOK
    /\ Len(imageFiles) > numWorkers
    /\ stats.Failed - startStats.Failed = Len(imageFiles)
    /\ Len(out) > 0 /\ out[Len(out)].k = "summary"

\* C8: ConvertImage never panics, and the result it returns has Success true
\* exactly when Error is nil; a failure of the load, format or save step ends
\* the call at that step.
C8_ConvertImageNeverPanics ==
    /\ ~crashed
    /\ pc[0] = "conv_done" =>
          /\ result[0].Success <=> (result[0].Error = "nil")
          /\ ~result[0].Success => result[0].ran[Len(result[0].ran)] \in {"load", "format", "save"}

\* C9: a file classified as non-image is never passed to ConvertImage and is
\* counted as skipped exactly once; when the classification loop is over the
\* stats have grown by one Total and one Skipped per non-image file and by
\* nothing else, and when the batch returns Skipped has grown by the number of
\* non-image files and Success + Failed by the number of image files.
C9_SkippedOnce ==
    /\ \A k \in 1 .. Len(files) :
          ~IsImageFile(files[k]) =>
              /\ convCalls[files[k]] = 0
              /\ skipCalls[files[k]] = IF k < ci THEN 1 ELSE 0
    /\ (pc[0] = "spawn" /\ sj = 1) =>
          /\ stats.Total = startStats.Total + NumNonImage
          /\ stats.Skipped = startStats.Skipped + NumNonImage
          /\ stats.Success = startStats.Success
          /\ stats.Failed = startStats.Failed
    /\ ReturnedOK =>
          /\ stats.Skipped = startStats.Skipped + NumNonImage
          /\ (stats.Success + stats.Failed) - (startStats.Success + startStats.Failed)
                = Len(files) - NumNonImage

\* a batch with a non-image file between two image files has returned
C9_Witness ==
    /\ ReturnedOK
    /\ \E k \in 2 .. Len(files) - 1 :
          /\ ~IsImageFile(files[k])
          /\ IsImageFile(files[k - 1]) /\ IsImageFile(files[k + 1])
          /\ skipCalls[files[k]] = 1
    /\ stats.Skipped - startStats.Skipped = 1

\* C10: at the beginning of every ProcessDirectory run all four counters are 0,
\* and the stats at the end of a run count only the files of that run.
C10_StatsEmptyAtStart ==
    /\ pc[0] = "scan" => stats = ZeroStats
    /\ ReturnedOK => stats.Total = Len(files)

\* C11: when the directory scan fails, ProcessDirectory returns a non-nil
\* error having counted no file as skipped, called ConvertImage for no file,
\* started no goroutine, printed nothing and left the four counters as they
\* were when it was called.
C11_ScanFailureFatal ==
    (pc[0] = "returned" /\ retErr # "nil") =>
        /\ retErr = "failed to scan directory"
        /\ stats = startStats
        /\ \A f \in PoolFiles : convCalls[f] = 0 /\ skipCalls[f] = 0
        /\ \A i \in Workers : pc[i] = "none"
        /\ files = << >> /\ imageFiles = << >>
        /\ wg = 0 /\ sem = 0 /\ processedCount = 0
        /\ out = << >>

\* the scan of a directory holding an image and a non-image file has failed in
\* the second run of a Converter whose first run counted files
C11_Witness ==
    /\ pc[0] = "returned" /\ retErr = "failed to scan directory"
    /\ run = 2
    /\ startStats.Total > 0 /\ startStats.Skipped > 0
    /\ stats = startStats
    /\ \E k, l \in 1 .. Len(dir) : IsImageFile(dir[k]) /\ ~IsImageFile(dir[l])

\* the rounding of the specification: the rational p/q, p >= 0 and q > 0,
\* rounded to the nearest integer, a half away from zero
Round(p, q) == (2 * p + q) \div (2 * q)

\* a size has been computed by a direct call
Sized == calc.op \in {"CalculateOutputSize", "ResizeImage"}

\* math.Abs on integers
Abs(n) == IF n < 0 THEN -n ELSE n

\* C12 as stated: with scale > 0 the result is the real-valued product of the
\* source size and the float64 scale, rounded half away from zero.
C12_ScaleExactOnReals ==
    (Sized /\ calc.spec.Scale.num > 0) =>
        /\ calc.dst.w = FRound(ExactMul(calc.srcWidth, ScaleFloat(calc.spec.Scale)))
        /\ calc.dst.h = FRound(ExactMul(calc.srcHeight, ScaleFloat(calc.spec.Scale)))

\* C12: with scale > 0 each dimension returned is the rounding half away from
\* zero of the real-valued product of the source dimension and the scale, or
\* that rounding plus one (the float64 product was rounded up to a half), and
\* the result is the one of the same request with width and height unset.
C12_ScaleRule ==
    (Sized /\ calc.spec.Scale.num > 0) =>
        LET scale == ScaleFloat(calc.spec.Scale)
            realW == FRound(ExactMul(calc.srcWidth, scale))
            realH == FRound(ExactMul(calc.srcHeight, scale))
        IN  /\ calc.dst.w \in {realW, realW + 1}
            /\ calc.dst.h \in {realH, realH + 1}
            /\ ExactMul(calc.srcWidth, scale).m[1] < 2 * Top => calc.dst.w = realW
            /\ ExactMul(calc.srcHeight, scale).m[1] < 2 * Top => calc.dst.h = realH
            /\ calc.dst = CalculateOutputSize(calc.srcWidth, calc.srcHeight,
                              [Scale |-> calc.spec.Scale, Width |-> 0, Height |-> 0])

\* a 3 pixels wide source scaled by 1/6 with both width and height set: the
\* width returned is 1, the real-valued product rounds to 0
C12_Witness ==
    /\ calc.op = "CalculateOutputSize"
    /\ calc.spec = [Scale |-> [num |-> 1, den |-> 6], Width |-> 17, Height |-> 2]
    /\ calc.srcWidth = 3 /\ calc.srcHeight = 4
    /\ calc.dst = [w |-> 1, h |-> 1]
    /\ FRound(ExactMul(3, ScaleFloat(calc.spec.Scale))) = 0

\* C13: with scale unset, a width-only request t yields width t and height
\* round(srcH * t / srcW), and a height-only request t yields height t and
\* width round(srcW * t / srcH).
C13_SingleDimension ==
    (Sized /\ calc.spec.Scale.num = 0) =>
        /\ (calc.spec.Width > 0 /\ calc.spec.Height = 0) =>
              /\ calc.dst.w = calc.spec.Width
              /\ calc.dst.h = Round(calc.srcHeight * calc.spec.Width, calc.srcWidth)
        /\ (calc.spec.Height > 0 /\ calc.spec.Width = 0) =>
              /\ calc.dst.h = calc.spec.Height
              /\ calc.dst.w = Round(calc.srcWidth * calc.spec.Height, calc.srcHeight)

\* the rational p/q, p >= 0 and q > 0, is an integer plus one half
IsHalf(p, q) == (2 * p) % q = 0 /\ ((2 * p) \div q) % 2 = 1

\* C13: with scale unset, a width-only request t yields width t and a height
\* that is round(srcH * t / srcW), or one less when srcH * t / srcW is an
\* integer plus one half; a height-only request t yields height t and a width
\* that is round(srcW * t / srcH), or one less when srcW * t / srcH is an
\* integer plus one half.
C13_SingleDimensionFloat ==
    (Sized /\ calc.spec.Scale.num = 0) =>
        /\ (calc.spec.Width > 0 /\ calc.spec.Height = 0) =>
              LET p == calc.srcHeight * calc.spec.Width IN
              /\ calc.dst.w = calc.spec.Width
              /\ calc.dst.h \in {Round(p, calc.srcWidth), Round(p, calc.srcWidth) - 1}
              /\ calc.dst.h # Round(p, calc.srcWidth) => IsHalf(p, calc.srcWidth)
        /\ (calc.spec.Height > 0 /\ calc.spec.Width = 0) =>
              LET p == calc.srcWidth * calc.spec.Height IN
              /\ calc.dst.h = calc.spec.Height
              /\ calc.dst.w \in {Round(p, calc.srcHeight), Round(p, calc.srcHeight) - 1}
              /\ calc.dst.w # Round(p, calc.srcHeight) => IsHalf(p, calc.srcHeight)

\* a 14 x 21 source with the width-only request 17: 21 * 17 / 14 is 25 and a
\* half, the height returned is 25
C13_Witness ==
    /\ calc.op = "CalculateOutputSize"
    /\ calc.srcWidth = 14 /\ calc.srcHeight = 21
    /\ calc.spec = [Scale |-> NoScale, Width |-> 17, Height |-> 0]
    /\ calc.dst = [w |-> 17, h |-> 25]
    /\ Round(21 * 17, 14) = 26

\* C14: with scale unset and both width and height set, the size returned fits
\* the box, touches it in at least one dimension, and in both when the box has
\* the proportions of the source.
C14_BoundingBoxFit ==
    (Sized /\ calc.spec.Scale.num = 0 /\ calc.spec.Width > 0 /\ calc.spec.Height > 0) =>
        /\ calc.dst.w <= calc.spec.Width
        /\ calc.dst.h <= calc.spec.Height
        /\ calc.dst.w = calc.spec.Width \/ calc.dst.h = calc.spec.Height
        /\ calc.spec.Width * calc.srcHeight = calc.spec.Height * calc.srcWidth =>
              calc.dst.w = calc.spec.Width /\ calc.dst.h = calc.spec.Height

\* a 14 x 21 source fitted into a 17 x 17 box: the height is the one that
\* touches the box, the width stays inside
C14_Witness ==
    /\ calc.op = "CalculateOutputSize"
    /\ calc.srcWidth = 14 /\ calc.srcHeight = 21
    /\ calc.spec = [Scale |-> NoScale, Width |-> 17, Height |-> 17]
    /\ calc.dst = [w |-> 11, h |-> 17]

\* the request of a direct call has no field set
AllZero == calc.spec.Scale.num = 0 /\ calc.spec.Width = 0 /\ calc.spec.Height = 0

\* C15: with an all-zero request the computed size is the source size;
\* ResizeImage returns the source image itself when the request is all-zero or
\* the computed size is the source size, and a new image of exactly the
\* computed size otherwise.
C15_IdentityNoOp ==
    /\ (Sized /\ AllZero) =>
          calc.dst = [w |-> calc.srcWidth, h |-> calc.srcHeight]
    /\ calc.op = "ResizeImage" =>
          IF AllZero \/ calc.dst = [w |-> calc.srcWidth, h |-> calc.srcHeight]
          THEN /\ calc.img.same /\ ~calc.img.panic
               /\ calc.img.w = calc.srcWidth /\ calc.img.h = calc.srcHeight
          ELSE /\ ~calc.img.same /\ ~calc.img.panic
               /\ calc.img.w = calc.dst.w /\ calc.img.h = calc.dst.h

\* the request of a direct call is a valid one: a scale in (0, 100], or a
\* positive width, a positive height or both
ValidRequest ==
    \/ calc.spec.Scale.num > 0 /\ calc.spec.Scale.num <= 100 * calc.spec.Scale.den
    \/ calc.spec.Scale.num = 0 /\ (calc.spec.Width > 0 \/ calc.spec.Height > 0)

CanonicalExt ==
    (FormatJPEG :> ".jpg") @@ (FormatPNG :> ".png") @@ (FormatWebP :> ".webp") @@
    (FormatGIF :> ".gif") @@ (FormatBMP :> ".bmp")

\* the base name of a path of a file without its last extension: what follows
\* the last separator, up to its last dot when it has one
StemOf(path) ==
    LET slashes == { i \in 1 .. Len(path) : path[i] = "/" }
        from == IF slashes = {} THEN 1
                ELSE 1 + CHOOSE i \in slashes : \A j \in slashes : j <= i
        dots == { i \in from .. Len(path) : path[i] = "." }
        to == IF dots = {} THEN Len(path)
              ELSE (CHOOSE i \in dots : \A j \in dots : j <= i) - 1
    IN  [i \in 1 .. to - from + 1 |-> path[from + i - 1]]

SupportedName(format) ==
    Lower(Spelling[format]) \in
        { Spelling[w] : w \in {"jpg", "jpeg", "png", "webp", "gif", "bmp"} }

\* C18: NormalizeFormat returns the same tag for two names that differ only
\* in letter case, the tag jpeg for jpg and for jpeg in any case, one of the
\* five canonical tags for a supported name in any case, and its own argument
\* when that is a tag it returned.
C18_Normalization ==
    calc.op = "NormalizeFormat" =>
        /\ \A w \in DOMAIN Spelling :
              Lower(Spelling[w]) = Lower(Spelling[calc.format]) =>
                  NormalizeFormat(w) = calc.out
        /\ Lower(Spelling[calc.format]) \in {Spelling["jpg"], Spelling["jpeg"]} =>
              calc.out = FormatJPEG
        /\ SupportedName(calc.format) => calc.out \in SupportedFormats
        /\ calc.again = calc.out

\* the name jPg has been normalized to jpeg
C18_Witness ==
    /\ calc.op = "NormalizeFormat"
    /\ calc.format = "jPg"
    /\ calc.out = FormatJPEG
    /\ calc.again = FormatJPEG

\* C19: when the explicit format is not a supported one, a ConvertImage call
\* returns a Failure, creates or truncates no file of the output directory,
\* and, when the source loads, ends at the format step with a format error.
C19_UnsupportedFormatFailsEarly ==
    (/\ pc[0] = "conv_done"
     /\ config.Format # ""
     /\ NormalizeFormat(config.Format) \notin SupportedFormats) =>
        /\ ~result[0].Success
        /\ ~result[0].created
        /\ outfs = << >>
        /\ result[0].ran[1] = "load"
        /\ Len(result[0].ran) > 1 =>
              /\ result[0].ran[Len(result[0].ran)] = "format"
              /\ result[0].Error = "failed to detect format"

\* the lines of the output that report a skipped file
IsSkippedLine(e) == e.k = "skipped"

\* C20: a batch prints one progress line per input file, the line of a
\* non-image file ending in SKIPPED (unsupported format), and the N of [i/N]
\* is the number of input files.
C20_ProgressCoversSkipped ==
    ReturnedOK =>
        /\ Len(SelectSeq(out, IsSkippedLine)) = NumNonImage
        /\ Len(Prefixes) = Len(files)
        /\ \A k \in 1 .. Len(Prefixes) : Prefixes[k].n = Len(files)

(***************************************************************************)
(* ValidateConfig, called directly.  The Scale field is a float64: the     *)
(* model writes it num/den, and 0/0 is the NaN that flag.Float64Var reads  *)
(* from "NaN"; every comparison with a NaN is false.                       *)
(***************************************************************************)
\* config.Scale > 0
ScalePositive(scale) == scale.den # 0 /\ scale.num > 0

\* config.Scale < 0
ScaleNegative(scale) == scale.den # 0 /\ scale.num < 0

NaN == [num |-> 0, den |-> 0]

\* the keys of validFormats
ValidFormats == {"jpeg", "jpg", "png", "webp", "gif", "bmp"}

\* ValidateConfig: the error returned and the configuration left behind, whose
\* Format is rewritten before the quality is looked at
ValidateConfig(cfg) ==
    LET hasScale == ScalePositive(cfg.Scale)
        hasPixels == cfg.Width > 0 \/ cfg.Height > 0
        format == ToLower(cfg.Format)
        rewritten == IF cfg.Format = "" THEN cfg
                     ELSE [cfg EXCEPT !.Format = IF format = "jpg" THEN "jpeg" ELSE format]
    IN  IF cfg.InputDir = "" THEN [err |-> "input-dir", config |-> cfg]
        ELSE IF cfg.OutputDir = "" THEN [err |-> "output-dir", config |-> cfg]
        ELSE IF hasScale /\ hasPixels THEN [err |-> "exclusive", config |-> cfg]
        ELSE IF ScaleNegative(cfg.Scale) THEN [err |-> "scale", config |-> cfg]
        ELSE IF cfg.Width < 0 THEN [err |-> "width", config |-> cfg]
        ELSE IF cfg.Height < 0 THEN [err |-> "height", config |-> cfg]
        ELSE IF cfg.Format # "" /\ format \notin ValidFormats
        THEN [err |-> "format", config |-> cfg]
        ELSE IF rewritten.JPEGQuality < 1 \/ rewritten.JPEGQuality > 100
        THEN [err |-> "jpeg-quality", config |-> rewritten]
        ELSE [err |-> "nil", config |-> rewritten]

\* the configurations ValidateConfig is given
ValidateConfigs ==
    { [Config(s, w, h, f, q) EXCEPT !.InputDir = i, !.OutputDir = o] :
        i \in {"", "in"}, o \in {"", "out"},
        s \in {[num |-> -1, den |-> 2], NoScale, [num |-> 1, den |-> 2], NaN},
        w \in {-1, 0, 3}, h \in {-1, 0, 3},
        f \in {"", "jpg", "JPG", "Jpeg", "PNG", "webp", "Gif", "bmp", "TIFF"},
        q \in {0, 1, DefaultQuality, 100, 101} }

InitValidate ==
    /\ InitWith({Config(NoScale, 0, 0, "", DefaultQuality)},
                {[writable |-> TRUE, encoderOK |-> TRUE]}, [t \in Threads |-> "none"])
    /\ Len(dir) = 0
    /\ numCPU = 1

\* err := ValidateConfig(config)
ValidateCall(cfg) ==
    /\ calc = NoCalc
    /\ LET r == ValidateConfig(cfg) IN
        calc' = [op |-> "ValidateConfig", config |-> cfg, err |-> r.err,
                 after |-> r.config]
    /\ UNCHANGED << statsVars, config, env, numCPU, dir, outfs, pc, ret, batchVars,
                    result, crashed, histVars, calls >>

NextValidate == \E cfg \in ValidateConfigs : ValidateCall(cfg)

SpecValidate == InitValidate /\ [][NextValidate]_vars

\* Scale >= 0 as a statement about a number, which a NaN is not
ScaleAtLeastZero(scale) == scale.den # 0 /\ scale.num >= 0

\* the scale is set: it is not the 0 that stands for unset
ScaleSet(scale) == ~(scale.den # 0 /\ scale.num = 0)

\* C21: ValidateConfig accepts a configuration exactly when both directories
\* are named, Scale, Width and Height are at least 0, Scale is not positive
\* together with a positive Width or Height, Format is empty or a supported
\* name in any letter case, and JPEGQuality is in 1..100; an accepted
\* configuration has at most one of scale and (width or height) set, and its
\* Format is empty or a canonical tag.
C21_ValidateConfig ==
    calc.op = "ValidateConfig" =>
        /\ calc.err = "nil" <=>
              /\ calc.config.InputDir # "" /\ calc.config.OutputDir # ""
              /\ ScaleAtLeastZero(calc.config.Scale)
              /\ calc.config.Width >= 0 /\ calc.config.Height >= 0
              /\ ~(/\ ScalePositive(calc.config.Scale)
                   /\ calc.config.Width > 0 \/ calc.config.Height > 0)
              /\ calc.config.Format = "" \/ SupportedName(calc.config.Format)
              /\ calc.config.JPEGQuality \in 1 .. 100
        /\ calc.err = "nil" =>
              /\ ~(/\ ScaleSet(calc.after.Scale)
                   /\ calc.after.Width > 0 \/ calc.after.Height > 0)
              /\ calc.after.Format \in {""} \cup SupportedFormats

\* C22: with one admission slot the conversions never overlap, and the image
\* files get their progress indices, and are converted, in the order of the
\* input list: the goroutine of imageFiles[i] is given index i, and has been
\* given it before the goroutine of any later file takes the slot.
C22_SequentialInListOrder ==
    (numWorkers = 1 /\ pc[0] \in {"spawn", "wait", "summary", "returned"}) =>
        /\ Cardinality({ i \in Workers : Holding(i) }) <= 1
        /\ \A i \in 1 .. Len(imageFiles) :
              /\ currentIndex[i] \in {0, i}
              /\ Holding(i) => \A j \in 1 .. i - 1 : pc[j] \in {"wgdone", "exited"}

\* the Printf of an outcome token
IsOutcome(e) == e.k \in {"ok", "failed"}

\* C23: every outcome token on the output comes directly after the prefix of
\* the same goroutine, and when the batch has returned every image file has
\* its prefix and its token.
C23_ProgressLineWhole ==
    /\ \A k \in 1 .. Len(out) :
          IsOutcome(out[k]) =>
              /\ k > 1
              /\ out[k - 1].k = "prefix"
              /\ out[k - 1].w = out[k].w
    /\ ReturnedOK =>
          Len(SelectSeq(out, IsOutcome)) = Len(imageFiles)

\* the files of the output directory that hold a whole encoded image
Written == { n \in DOMAIN outfs : outfs[n] = "complete" }

\* C24: the output paths resolved for two distinct image files of a batch are
\* different, and when the first batch on an empty output directory has
\* returned, the files written are as many as the Success outcomes.
C24_NoSharedOutput ==
    /\ \A i, j \in 1 .. Len(imageFiles) :
          (i # j /\ result[i].OutputPath # NoPath /\ result[j].OutputPath # NoPath) =>
              result[i].OutputPath # result[j].OutputPath
    /\ (ReturnedOK /\ run = 1) =>
          Cardinality(Written) =
              Cardinality({ i \in 1 .. Len(imageFiles) : result[i].Success })

\* the phase of the batch thread 0 is in: 0 Idle, 1 Scanning, 2 Dispatching,
\* 3 Draining, 4 Complete
Phase ==
    CASE pc[0] \in {"scan", "classify", "s_lock", "s_total", "s_skipped"} -> 1
      [] pc[0] = "spawn" -> 2
      [] pc[0] = "wait" -> 3
      [] pc[0] \in {"summary", "returned"} -> 4
      [] OTHER -> 0

\* the goroutine of imageFiles[i] has been started
Started(i) == pc[i] # "none"

\* in every state of a batch: a goroutine is started, and a file converted,
\* only when the scan is over and every skip is counted; the first line of the
\* output is the "Processing N images..." line and no other line is one; the
\* summary is the last line and every outcome is folded when it is printed; no
\* file is converted twice
PhasesInOrder ==
    /\ ((\E i \in Workers : Started(i)) \/ (\E f \in PoolFiles : convCalls[f] > 0)) =>
          /\ Phase >= 2
          /\ ci > Len(files)
          /\ \A k \in 1 .. Len(files) :
                skipCalls[files[k]] = IF IsImageFile(files[k]) THEN 0 ELSE 1
          /\ stats.Skipped = startStats.Skipped + NumNonImage
    /\ \A k \in 1 .. Len(out) : (out[k].k = "processing") <=> (k = 1)
    /\ \A k \in 1 .. Len(out) :
          out[k].k = "summary" =>
              /\ k = Len(out)
              /\ \A i \in 1 .. Len(imageFiles) : Folded(i)
              /\ Len(SelectSeq(out, IsOutcome)) = Len(imageFiles)
    /\ \A f \in PoolFiles : convCalls[f] <= 1

\* a step of a batch never goes back to an earlier phase: the phase stays or
\* grows, except at a new call of ProcessDirectory
PhaseStep == Phase' >= Phase \/ run' = run + 1

\* C25: the phases of a batch are Scanning, Dispatching, Draining, Complete in
\* this order: the scan has finished and every skip is counted before a
\* goroutine is started or ConvertImage begins, the "Processing N images..."
\* line precedes every progress line, the summary follows the folding of the
\* last outcome, no phase is entered again and no file is converted twice.
C25_PhaseOrder == [](PhasesInOrder) /\ [][PhaseStep]_vars

\* a batch of two images and a skipped file has returned: its output starts
\* with the Processing line and ends with the summary
C25_Witness ==
    /\ ReturnedOK
    /\ Len(imageFiles) = 2 /\ NumNonImage = 1
    /\ out[1].k = "processing"
    /\ out[Len(out)].k = "summary"
    /\ \A i \in 1 .. 2 : pc[i] = "exited"

\* C26: for a source of at least 1 x 1 pixels and a request that sets the
\* width, the height or both and no scale, CalculateOutputSize returns a
\* width and a height of at least 1.
C26_DimensionsValid ==
    (/\ calc.op = "CalculateOutputSize"
     /\ calc.srcWidth >= 1 /\ calc.srcHeight >= 1
     /\ calc.spec.Scale = NoScale
     /\ calc.spec.Width > 0 \/ calc.spec.Height > 0) =>
        calc.dst.w >= 1 /\ calc.dst.h >= 1

(***************************************************************************)
(* GetStats, called by a goroutine of its own while others call UpdateStats *)
(* and IncrementSkipped.  It returns c.stats without taking statsMutex: the *)
(* copy of the four counters is a data race with the writers, so each      *)
(* counter is read at a moment of its own, in any order.                   *)
(***************************************************************************)
StatsFields == {"Total", "Success", "Failed", "Skipped"}

\* the counters GetStats has copied so far
Snapshot == IF calc = NoCalc THEN << >> ELSE calc.snap

\* return c.stats: the copy of the counter f
GetStatsRead(f) ==
    /\ ~crashed
    /\ calc = NoCalc \/ calc.op = "GetStats"
    /\ f \notin DOMAIN Snapshot
    /\ calc' = [op |-> "GetStats", snap |-> (f :> stats[f]) @@ Snapshot]
    /\ UNCHANGED << statsVars, config, env, numCPU, dir, outfs, pc, ret, batchVars,
                    result, crashed, histVars, calls >>

NextSnapshot ==
    \/ \E t \in Threads :
          \/ \E success \in BOOLEAN : CallUpdateStats(t, success)
          \/ CallIncrementSkipped(t)
          \/ U_Lock(t)
          \/ U_Total(t)
          \/ U_Outcome(t)
          \/ S_Lock(t)
          \/ S_Total(t)
          \/ S_Skipped(t)
    \/ \E f \in StatsFields : GetStatsRead(f)

SpecSnapshot == InitStats /\ [][NextSnapshot]_vars

\* C27: the value a GetStats call returns, whenever it is made, satisfies
\* Total = Success + Failed + Skipped.
C27_SnapshotConsistent ==
    (calc.op = "GetStats" /\ DOMAIN calc.snap = StatsFields) =>
        calc.snap["Total"] =
            calc.snap["Success"] + calc.snap["Failed"] + calc.snap["Skipped"]

\* in every state the channel holds one element per goroutine between its send
\* and its receive, and when ProcessDirectory has returned the channel is
\* empty, both mutexes are free and every goroutine has exited
SlotsAccounted ==
    /\ sem = Cardinality({ i \in Workers : Holding(i) })
    /\ pc[0] = "returned" =>
          /\ sem = 0
          /\ statsMutex = Free
          /\ progressMutex = Free
          /\ \A i \in 1 .. Len(imageFiles) : pc[i] = "exited"

\* a step takes at most one element out of the channel, and a goroutine gives
\* its slot up only by the receive that follows its UpdateStats call and its
\* outcome line, whatever the outcome was
ReleaseStep ==
    /\ sem' >= sem - 1
    /\ \A i \in Workers :
          (Holding(i) /\ ~Holding(i)') =>
              /\ pc[i] = "release" /\ pc'[i] = "wgdone"
              /\ sem' = sem - 1
              /\ Folded(i)
              /\ convCalls[imageFiles[i]] = 1

\* C28: no admission slot is leaked: every goroutine gives back the slot it
\* took exactly once, after a Success and after a Failure alike and only after
\* its outcome is folded into the stats, and when ProcessDirectory returns the
\* channel is empty and both mutexes are unlocked.
C28_NoSlotLeak == [](SlotsAccounted) /\ [][ReleaseStep]_vars

\* a batch with a Success and a Failure has returned with an empty channel
C28_Witness ==
    /\ ReturnedOK
    /\ \E i, j \in 1 .. Len(imageFiles) : result[i].Success /\ ~result[j].Success
    /\ sem = 0
    /\ Len(imageFiles) > numWorkers

\* C29: a ConvertImage call that returns a Failure has created or truncated no
\* file of the output directory, and a call leaves a file at its output path
\* only when it returns Success.
C29_FailureLeavesNoFile ==
    pc[0] = "conv_done" =>
        /\ ~result[0].Success => (~result[0].created /\ outfs = << >>)
        /\ outfs # << >> => result[0].Success

\* the extension is one of the six of the allow-list, in some letter case
AllowedExtension(ext) ==
    Lower(Spelling[ext]) \in
        { Spelling[w] : w \in {".jpg", ".jpeg", ".png", ".gif", ".bmp", ".webp"} }

\* C30: IsImageFile is true of a path exactly when DetectFormat returns no
\* error for it, which is exactly when its extension is one of .jpg .jpeg .png
\* .gif .bmp .webp in some letter case; a missing or any other extension is
\* rejected by both, and the format detected is a supported one.
C30_ClassifierAgreesWithDetector ==
    calc.op = "DetectFormat" =>
        /\ calc.isImage <=> ~calc.detected.err
        /\ calc.isImage <=> AllowedExtension(calc.ext)
        /\ ~calc.detected.err => calc.detected.format \in SupportedFormats
        /\ calc.detected.err => calc.detected.format = ""

\* the extension .WebP is classified as an image and detected as webp
C30_Witness ==
    /\ calc.op = "DetectFormat"
    /\ calc.ext = ".WebP"
    /\ calc.isImage
    /\ calc.detected = [format |-> FormatWebP, err |-> FALSE]

====
